---- MODULE Spec2Model ----
(***************************************************************************)
(* Word search puzzle generator (src/wordsearch.cpp): the time-bounded     *)
(* backtracking search of generateWordSearch / solvePuzzleRecursively.     *)
(*                                                                         *)
(* The recursion is modelled by an explicit call stack: one frame per      *)
(* active call of solvePuzzleRecursively, holding the call's arguments     *)
(* that differ between calls (current_index, grid), its local candidate    *)
(* list, and its position in the function body.  current_placements,       *)
(* used_flags and best_result are passed by reference in the code and are  *)
(* therefore single variables here.                                        *)
(*                                                                         *)
(* A letter is a one-character string, the empty cell is ".", a word is a  *)
(* sequence of letters, a grid (vector<string>) is a sequence of rows,     *)
(* each a sequence of cells; C++ index i is TLA+ index i + 1.              *)
(***************************************************************************)
EXTENDS Integers, Sequences, FiniteSets, TLC

VARIABLES
    pc,                  \* position of main/generateWordSearch
    words,               \* argument words of generateWordSearch
    required_flags,      \* argument required_flags
    GRID_ROWS,           \* global, line 22
    GRID_COLS,           \* global, line 22
    MAX_RUNTIME_MS,      \* global, line 23
    elapsed_ms,          \* steady_clock::now() - solver_start_time, in ms
    sort_ties,           \* how this build's std::sort orders equivalent candidates
    word_order,          \* local of generateWordSearch
    stack,               \* active calls of solvePuzzleRecursively, innermost last
    current_placements,  \* by-reference argument
    used_flags,          \* by-reference argument
    best_result,         \* by-reference argument (PuzzleResult)
    checks,              \* number of hasTimedOut() calls of this run that returned false
    run,                 \* 1 for the first call of the solver, 2 for a repeated one
    first,               \* what the first run returned, once a second run has started
    visited,             \* (placed_count, current_overlap) of every call that reached line 137
    deadline_seen,       \* a call of hasTimedOut() of this run has returned true
    probe                \* arguments and results of direct calls of canPlaceWord

vars == <<pc, words, required_flags, GRID_ROWS, GRID_COLS, MAX_RUNTIME_MS,
          elapsed_ms, sort_ties, word_order, stack, current_placements,
          used_flags, best_result, checks, run, first, visited,
          deadline_seen, probe>>

----------------------------------------------------------------------------
(* Bounds of the model *)

\* grids have 1..MaxRows rows
MaxRows == 2
\* grids have 1..MaxCols columns
MaxCols == 2
\* a run has 1..MaxWords word entries
MaxWords == 2
\* a word has 1..MaxWordLen letters
MaxWordLen == 2
\* words are written with the first NumLetters letters of the alphabet
NumLetters == 2
\* --timems is 0..MaxRuntime
MaxRuntime == 1
\* the random fill draws 'A' + k for k in 0..FillMax (25 in the code, line 234)
FillMax == 1

----------------------------------------------------------------------------
(* Data *)

EMPTY == "."

LetterOf == <<"A", "B", "C", "D", "E", "F", "G", "H", "I", "J", "K", "L", "M",
              "N", "O", "P", "Q", "R", "S", "T", "U", "V", "W", "X", "Y", "Z">>

Letters == {LetterOf[i] : i \in 1..26}

\* lines 27-29
DIRECTIONS == << <<0, 1>>, <<0, -1>>, <<1, 0>>, <<-1, 0>>,
                 <<1, 1>>, <<1, -1>>, <<-1, 1>>, <<-1, -1>> >>

\* struct WordPlacement, lines 34-38
WordPlacement(word, row, col, delta_row, delta_col) ==
    [word |-> word, row |-> row, col |-> col,
     delta_row |-> delta_row, delta_col |-> delta_col]

\* struct PuzzleResult as default-constructed, lines 40-47
PuzzleResult ==
    [grid |-> << >>, placements |-> << >>, placed_words |-> << >>,
     unplaced_words |-> << >>, num_placed |-> 0, total_overlap_score |-> 0]

\* vector<string> blank_grid(rows, string(cols, '.')), line 207
BlankGrid(rows, cols) == [r \in 1..rows |-> [c \in 1..cols |-> EMPTY]]

Abs(x) == IF x < 0 THEN -x ELSE x

----------------------------------------------------------------------------
(* Helper functions *)

\* lines 63-65
isInBounds(r, c) == r >= 0 /\ r < GRID_ROWS /\ c >= 0 /\ c < GRID_COLS

\* lines 68-72
hasTimedOut == elapsed_ms >= MAX_RUNTIME_MS

\* lines 79-89: the loop over the letters of word from letter k on, with the
\* running position (r, c) and overlap count n
RECURSIVE canPlaceFrom(_, _, _, _, _, _, _, _)
canPlaceFrom(grid, word, k, r, c, dr, dc, n) ==
    IF k > Len(word) THEN [ok |-> TRUE, overlap_count |-> n]
    ELSE IF ~isInBounds(r, c) THEN [ok |-> FALSE, overlap_count |-> n]
    ELSE LET existing == grid[r + 1][c + 1]
             ch == word[k]
         IN  IF existing # EMPTY /\ existing # ch
             THEN [ok |-> FALSE, overlap_count |-> n]
             ELSE canPlaceFrom(grid, word, k + 1, r + dr, c + dc, dr, dc,
                               IF existing = ch THEN n + 1 ELSE n)

\* canPlaceWord without the test of line 84: a cell holding another letter
\* does not stop the placement
RECURSIVE inBoundsFrom(_, _, _, _, _, _, _, _)
inBoundsFrom(grid, word, k, r, c, dr, dc, n) ==
    IF k > Len(word) THEN [ok |-> TRUE, overlap_count |-> n]
    ELSE IF ~isInBounds(r, c) THEN [ok |-> FALSE, overlap_count |-> n]
    ELSE inBoundsFrom(grid, word, k + 1, r + dr, c + dc, dr, dc,
                      IF grid[r + 1][c + 1] = word[k] THEN n + 1 ELSE n)

canPlaceWord_NoConflictTest(grid, word, r, c, dr, dc) ==
    inBoundsFrom(grid, word, 1, r, c, dr, dc, 0)

\* canPlaceWord with line 84 as "existing != '.'": only empty cells accepted
canPlaceWord_EmptyOnly(grid, word, r, c, dr, dc) ==
    LET res == canPlaceFrom(grid, word, 1, r, c, dr, dc, 0)
    IN  [ok |-> res.ok /\ res.overlap_count = 0, overlap_count |-> 0]

\* lines 79-89: the bool result and the out-parameter overlap_count
canPlaceWord(grid, word, r, c, dr, dc) ==
    canPlaceFrom(grid, word, 1, r, c, dr, dc, 0)

\* lines 92-97, from letter k on
RECURSIVE placeFrom(_, _, _, _, _, _, _)
placeFrom(grid, word, k, r, c, dr, dc) ==
    IF k > Len(word) THEN grid
    ELSE placeFrom([grid EXCEPT ![r + 1][c + 1] = word[k]],
                   word, k + 1, r + dr, c + dc, dr, dc)

\* lines 92-97
placeWord(grid, word, r, c, dr, dc) == placeFrom(grid, word, 1, r, c, dr, dc)

----------------------------------------------------------------------------
(* Overlap scoring *)

\* lines 110-113: the cells of one placement, from letter k on, counted into
\* overlap_map
RECURSIVE countPlacement(_, _, _, _, _)
countPlacement(overlap_map, p, k, rr, cc) ==
    IF k > Len(p.word) THEN overlap_map
    ELSE countPlacement(
             IF isInBounds(rr, cc)
             THEN [overlap_map EXCEPT ![rr + 1][cc + 1] = @ + 1]
             ELSE overlap_map,
             p, k + 1, rr + p.delta_row, cc + p.delta_col)

\* lines 108-114: the placements from the i-th on
RECURSIVE countPlacements(_, _, _)
countPlacements(overlap_map, placements, i) ==
    IF i > Len(placements) THEN overlap_map
    ELSE countPlacements(
             countPlacement(overlap_map, placements[i], 1,
                            placements[i].row, placements[i].col),
             placements, i + 1)

\* lines 116-120: the cells from the n-th on in row-major order (n from 0)
RECURSIVE sumOverlap(_, _)
sumOverlap(overlap_map, n) ==
    IF n >= GRID_ROWS * GRID_COLS THEN 0
    ELSE LET v == overlap_map[(n \div GRID_COLS) + 1][(n % GRID_COLS) + 1]
         IN  (IF v > 1 THEN v - 1 ELSE 0) + sumOverlap(overlap_map, n + 1)

\* lines 116-120 with line 120 as "overlap_score += overlap_map[r][c]"
RECURSIVE sumShared(_, _)
sumShared(overlap_map, n) ==
    IF n >= GRID_ROWS * GRID_COLS THEN 0
    ELSE LET v == overlap_map[(n \div GRID_COLS) + 1][(n % GRID_COLS) + 1]
         IN  (IF v > 1 THEN v ELSE 0) + sumShared(overlap_map, n + 1)

calculateOverlapScore_NoMinusOne(placements) ==
    IF placements = << >> THEN 0
    ELSE sumShared(
             countPlacements([r \in 1..GRID_ROWS |-> [c \in 1..GRID_COLS |-> 0]],
                             placements, 1),
             0)

\* lines 104-122
calculateOverlapScore(placements) ==
    IF placements = << >> THEN 0
    ELSE sumOverlap(
             countPlacements([r \in 1..GRID_ROWS |-> [c \in 1..GRID_COLS |-> 0]],
                             placements, 1),
             0)

----------------------------------------------------------------------------
(* Candidates of one word *)

\* lines 162-168: struct Candidate {r, c, dr, dc, overlap} for every cell
\* and direction that canPlaceWord accepts, in the order of the three loops
GenerateCandidates(grid, current_word) ==
    LET nd == Len(DIRECTIONS)
        tried == [n \in 1..(GRID_ROWS * GRID_COLS * nd) |->
                    LET r == (n - 1) \div (GRID_COLS * nd)
                        c == ((n - 1) \div nd) % GRID_COLS
                        dir == DIRECTIONS[((n - 1) % nd) + 1]
                        res == canPlaceWord(grid, current_word, r, c, dir[1], dir[2])
                    IN  [r |-> r, c |-> c, dr |-> dir[1], dc |-> dir[2],
                         overlap |-> res.overlap_count, ok |-> res.ok]]
        kept == SelectSeq(tried, LAMBDA t : t.ok)
    IN  [i \in 1..Len(kept) |->
            [r |-> kept[i].r, c |-> kept[i].c, dr |-> kept[i].dr,
             dc |-> kept[i].dc, overlap |-> kept[i].overlap]]

\* lines 171-176 with line 175 as "return dist_a > dist_b"
CandidateBefore_FarFirst(a, b) ==
    IF a.overlap # b.overlap THEN a.overlap > b.overlap
    ELSE LET dist_a == Abs(a.r - GRID_ROWS \div 2) + Abs(a.c - GRID_COLS \div 2)
             dist_b == Abs(b.r - GRID_ROWS \div 2) + Abs(b.c - GRID_COLS \div 2)
         IN  dist_a > dist_b

\* lines 171-176: the comparator given to sort
CandidateBefore(a, b) ==
    IF a.overlap # b.overlap THEN a.overlap > b.overlap
    ELSE LET dist_a == Abs(a.r - GRID_ROWS \div 2) + Abs(a.c - GRID_COLS \div 2)
             dist_b == Abs(b.r - GRID_ROWS \div 2) + Abs(b.c - GRID_COLS \div 2)
         IN  dist_a < dist_b

\* line 171: std::sort orders by the comparator and leaves the order of
\* equivalent elements to the library; sort_ties is the order this build
\* gives them: as generated, or reversed.
SortCandidates(candidates) ==
    LET n == Len(candidates)
        first_of(i, j) == IF sort_ties = "generated" THEN i < j ELSE i > j
        rank == [i \in 1..n |->
                    Cardinality({j \in 1..n :
                        \/ CandidateBefore(candidates[j], candidates[i])
                        \/ /\ ~CandidateBefore(candidates[i], candidates[j])
                           /\ first_of(j, i)})]
    IN  [k \in 1..n |-> candidates[CHOOSE i \in 1..n : rank[i] = k - 1]]

----------------------------------------------------------------------------
(* Word order *)

\* line 216 with less<>() as the order
PairGreater_Ascending(a, b) == a[1] < b[1] \/ (a[1] = b[1] /\ a[2] < b[2])

\* greater<>() on pair<int,int>, line 216
PairGreater(a, b) == a[1] > b[1] \/ (a[1] = b[1] /\ a[2] > b[2])

\* lines 212-217 for one pass: the (length, index) pairs of the words whose
\* flag the pass selects, sorted descending, projected to the index
PassOrder(ws, flags, pass) ==
    LET tmp == {<<Len(ws[i + 1]), i>> : i \in {j \in 0..(Len(ws) - 1) :
                                              (pass = 0) = flags[j + 1]}}
        rank(p) == Cardinality({q \in tmp : PairGreater(q, p)})
    IN  [k \in 1..Cardinality(tmp) |-> (CHOOSE p \in tmp : rank(p) = k - 1)[2]]

\* lines 210-218
WordOrder(ws, flags) == PassOrder(ws, flags, 0) \o PassOrder(ws, flags, 1)

----------------------------------------------------------------------------
(* Best solution *)

\* lines 141-142 as "placed_count >= best_result.num_placed"
UpdateBest_CountOnly(best, grid, placements) ==
    LET placed_count == Len(placements)
        current_overlap == calculateOverlapScore(placements)
    IN  IF placed_count >= best.num_placed
        THEN [best EXCEPT !.num_placed = placed_count,
                          !.total_overlap_score = current_overlap,
                          !.grid = grid,
                          !.placements = placements]
        ELSE best

\* lines 137-147
UpdateBest(best, grid, placements) ==
    LET placed_count == Len(placements)
        current_overlap == calculateOverlapScore(placements)
    IN  IF \/ placed_count > best.num_placed
           \/ /\ placed_count = best.num_placed
              /\ current_overlap > best.total_overlap_score
        THEN [best EXCEPT !.num_placed = placed_count,
                          !.total_overlap_score = current_overlap,
                          !.grid = grid,
                          !.placements = placements]
        ELSE best

\* lines 152-153 with the bound as "placed_count + remaining <= num_placed + 1"
CannotImprove_OffByOne(placed_count, remaining, best) ==
    placed_count + remaining <= best.num_placed + 1

\* lines 152-153: no branch from here can place more words than best has
CannotImprove(placed_count, remaining, best) ==
    placed_count + remaining <= best.num_placed

----------------------------------------------------------------------------
(* Inputs *)

Alphabet == {LetterOf[i] : i \in 1..NumLetters}

\* the words normalizeWord lets through: non-empty, letters only
WordPool == UNION {[1..n -> Alphabet] : n \in 1..MaxWordLen}

WordLists == UNION {[1..n -> WordPool] : n \in 1..MaxWords}

\* one draw of the generator per cell, 'A' + dist(rng), lines 233-238
FillLetters == {LetterOf[k + 1] : k \in 0..FillMax}

Fills(rows, cols) == [1..rows -> [1..cols -> FillLetters]]

\* the fills that draw the same letter for every cell
SameLetterFills(rows, cols) ==
    {[r \in 1..rows |-> [c \in 1..cols |-> l]] : l \in FillLetters}

----------------------------------------------------------------------------
(* The call stack *)

\* a call of solvePuzzleRecursively at its first statement
Call(current_index, grid) ==
    [current_index |-> current_index, grid |-> grid,
     candidates |-> << >>, next |-> 1, at |-> "entry"]

Top == stack[Len(stack)]

Pop == SubSeq(stack, 1, Len(stack) - 1)

\* the stack with the innermost frame replaced
WithTop(frame) == [stack EXCEPT ![Len(stack)] = frame]

Searching == pc = "search" /\ stack # << >>

\* solvePuzzleRecursively has returned to generateWordSearch (after line 224)
SearchReturned == pc = "search" /\ stack = << >>

----------------------------------------------------------------------------
(* generateWordSearch, lines 200-224: set the globals, start the clock,     *)
(* order the words, call the search                                         *)

generateWordSearch(ws, flags, rows, cols, runtime_ms) ==
    /\ words' = ws
    /\ required_flags' = flags
    /\ GRID_ROWS' = rows
    /\ GRID_COLS' = cols
    /\ MAX_RUNTIME_MS' = runtime_ms
    /\ elapsed_ms' = 0
    /\ word_order' = WordOrder(ws, flags)
    /\ used_flags' = [i \in 1..Len(ws) |-> FALSE]
    /\ current_placements' = << >>
    /\ best_result' = PuzzleResult
    /\ stack' = << Call(0, BlankGrid(rows, cols)) >>
    /\ checks' = 0
    /\ visited' = {}
    /\ deadline_seen' = FALSE
    /\ pc' = "search"

\* main, lines 246-300: the words and flags read from stdin, the grid size
\* and the time limit from the command line
Main ==
    /\ pc = "main"
    /\ \E ws \in WordLists, rows \in 1..MaxRows, cols \in 1..MaxCols,
          runtime_ms \in 0..MaxRuntime :
          \E flags \in [1..Len(ws) -> BOOLEAN] :
              generateWordSearch(ws, flags, rows, cols, runtime_ms)
    /\ UNCHANGED <<sort_ties, run, first, probe>>

\* the steady clock advances while the search runs; past the limit its
\* value no longer matters to hasTimedOut
Tick ==
    /\ Searching
    /\ elapsed_ms < MAX_RUNTIME_MS
    /\ elapsed_ms' = elapsed_ms + 1
    /\ UNCHANGED <<pc, words, required_flags, GRID_ROWS, GRID_COLS,
                   MAX_RUNTIME_MS, sort_ties, word_order, stack,
                   current_placements, used_flags, best_result, checks,
                   run, first, visited, deadline_seen, probe>>

----------------------------------------------------------------------------
(* solvePuzzleRecursively *)

\* lines 135-176: deadline check, best update, leaf test, bound test,
\* candidate generation and sort
SolveEntry ==
    /\ Searching
    /\ Top.at = "entry"
    /\ IF hasTimedOut
       THEN /\ stack' = Pop
            /\ deadline_seen' = TRUE
            /\ UNCHANGED <<best_result, checks, visited>>
       ELSE LET placed_count == Len(current_placements)
                current_overlap == calculateOverlapScore(current_placements)
                best == UpdateBest(best_result, Top.grid, current_placements)
                remaining == Len(word_order) - Top.current_index
            IN  /\ checks' = checks + 1
                /\ visited' = visited \cup {<<placed_count, current_overlap>>}
                /\ UNCHANGED deadline_seen
                /\ best_result' = best
                /\ IF Top.current_index >= Len(word_order)
                   THEN stack' = Pop
                   ELSE IF CannotImprove(placed_count, remaining, best)
                   THEN stack' = Pop
                   ELSE LET word_index == word_order[Top.current_index + 1]
                            current_word == words[word_index + 1]
                        IN  stack' = WithTop(
                                [Top EXCEPT
                                   !.candidates = SortCandidates(
                                       GenerateCandidates(Top.grid, current_word)),
                                   !.next = 1,
                                   !.at = "loop"])
    /\ UNCHANGED <<pc, words, required_flags, GRID_ROWS, GRID_COLS,
                   MAX_RUNTIME_MS, elapsed_ms, sort_ties, word_order,
                   current_placements, used_flags, run, first, probe>>

\* lines 179-186 with line 182 as "placeWord(grid, ...)" and grid passed on:
\* the word is written into the caller's own grid
TryCandidate_InPlace ==
    /\ Searching
    /\ Top.at = "loop"
    /\ Top.next <= Len(Top.candidates)
    /\ IF hasTimedOut
       THEN /\ stack' = Pop
            /\ deadline_seen' = TRUE
            /\ UNCHANGED <<current_placements, used_flags, checks>>
       ELSE LET word_index == word_order[Top.current_index + 1]
                current_word == words[word_index + 1]
                cand == Top.candidates[Top.next]
                new_grid == placeWord(Top.grid, current_word,
                                      cand.r, cand.c, cand.dr, cand.dc)
            IN  /\ checks' = checks + 1
                /\ UNCHANGED deadline_seen
                /\ current_placements' =
                       Append(current_placements,
                              WordPlacement(current_word, cand.r, cand.c,
                                            cand.dr, cand.dc))
                /\ used_flags' = [used_flags EXCEPT ![word_index + 1] = TRUE]
                /\ stack' = Append(WithTop([Top EXCEPT !.at = "placed",
                                                       !.grid = new_grid]),
                                   Call(Top.current_index + 1, new_grid))
    /\ UNCHANGED <<pc, words, required_flags, GRID_ROWS, GRID_COLS,
                   MAX_RUNTIME_MS, elapsed_ms, sort_ties, word_order,
                   best_result, run, first, visited, probe>>

\* lines 179-186: one iteration of the loop over the candidates, up to the
\* recursive call
TryCandidate ==
    /\ Searching
    /\ Top.at = "loop"
    /\ Top.next <= Len(Top.candidates)
    /\ IF hasTimedOut
       THEN /\ stack' = Pop
            /\ deadline_seen' = TRUE
            /\ UNCHANGED <<current_placements, used_flags, checks>>
       ELSE LET word_index == word_order[Top.current_index + 1]
                current_word == words[word_index + 1]
                cand == Top.candidates[Top.next]
                new_grid == placeWord(Top.grid, current_word,
                                      cand.r, cand.c, cand.dr, cand.dc)
            IN  /\ checks' = checks + 1
                /\ UNCHANGED deadline_seen
                /\ current_placements' =
                       Append(current_placements,
                              WordPlacement(current_word, cand.r, cand.c,
                                            cand.dr, cand.dc))
                /\ used_flags' = [used_flags EXCEPT ![word_index + 1] = TRUE]
                /\ stack' = Append(WithTop([Top EXCEPT !.at = "placed"]),
                                   Call(Top.current_index + 1, new_grid))
    /\ UNCHANGED <<pc, words, required_flags, GRID_ROWS, GRID_COLS,
                   MAX_RUNTIME_MS, elapsed_ms, sort_ties, word_order,
                   best_result, run, first, visited, probe>>

\* lines 188-190: the recursive call of the loop has returned
UndoCandidate ==
    /\ Searching
    /\ Top.at = "placed"
    /\ LET word_index == word_order[Top.current_index + 1]
       IN  used_flags' = [used_flags EXCEPT ![word_index + 1] = FALSE]
    /\ current_placements' =
           SubSeq(current_placements, 1, Len(current_placements) - 1)
    /\ stack' = WithTop([Top EXCEPT !.next = @ + 1, !.at = "loop"])
    /\ UNCHANGED <<pc, words, required_flags, GRID_ROWS, GRID_COLS,
                   MAX_RUNTIME_MS, elapsed_ms, sort_ties, word_order,
                   best_result, checks, run, first, visited, deadline_seen,
                   probe>>

\* lines 192-194 without the test of line 193: the word is skipped whatever
\* the clock says
SkipWord_NoDeadlineTest ==
    /\ Searching
    /\ Top.at = "loop"
    /\ Top.next > Len(Top.candidates)
    /\ checks' = checks + 1
    /\ stack' = Append(WithTop([Top EXCEPT !.at = "skipped"]),
                       Call(Top.current_index + 1, Top.grid))
    /\ UNCHANGED <<pc, words, required_flags, GRID_ROWS, GRID_COLS,
                   MAX_RUNTIME_MS, elapsed_ms, sort_ties, word_order,
                   current_placements, used_flags, best_result, run, first,
                   visited, deadline_seen, probe>>

\* lines 192-194: the loop is over; skip the word unless timed out
SkipWord ==
    /\ Searching
    /\ Top.at = "loop"
    /\ Top.next > Len(Top.candidates)
    /\ IF ~hasTimedOut
       THEN /\ checks' = checks + 1
            /\ stack' = Append(WithTop([Top EXCEPT !.at = "skipped"]),
                               Call(Top.current_index + 1, Top.grid))
            /\ UNCHANGED deadline_seen
       ELSE /\ stack' = Pop
            /\ deadline_seen' = TRUE
            /\ UNCHANGED checks
    /\ UNCHANGED <<pc, words, required_flags, GRID_ROWS, GRID_COLS,
                   MAX_RUNTIME_MS, elapsed_ms, sort_ties, word_order,
                   current_placements, used_flags, best_result, run, first,
                   visited, probe>>

\* line 195: the skip call has returned, and so does this call
ReturnAfterSkip ==
    /\ Searching
    /\ Top.at = "skipped"
    /\ stack' = Pop
    /\ UNCHANGED <<pc, words, required_flags, GRID_ROWS, GRID_COLS,
                   MAX_RUNTIME_MS, elapsed_ms, sort_ties, word_order,
                   current_placements, used_flags, best_result, checks,
                   run, first, visited, deadline_seen, probe>>

----------------------------------------------------------------------------
(* generateWordSearch, lines 226-240 *)

\* lines 227-230 with placed_words pushed once per placement
Classify_PerPlacement(best, ws) ==
    LET placed_set == {best.placements[i].word : i \in DOMAIN best.placements}
    IN  [best EXCEPT
           !.placed_words = [i \in DOMAIN best.placements |->
                                best.placements[i].word],
           !.unplaced_words = SelectSeq(ws, LAMBDA w : w \notin placed_set)]

\* lines 227-230: placed_words and unplaced_words
Classify(best, ws) ==
    LET placed_set == {best.placements[i].word : i \in DOMAIN best.placements}
    IN  [best EXCEPT
           !.placed_words = SelectSeq(ws, LAMBDA w : w \in placed_set),
           !.unplaced_words = SelectSeq(ws, LAMBDA w : w \notin placed_set)]

\* lines 235-238 without the test of line 237
FillGrid_EveryCell(grid, fill) ==
    [r \in 1..GRID_ROWS |-> [c \in 1..GRID_COLS |-> fill[r][c]]]

\* lines 235-238: every cell still '.' gets the letter drawn for it
FillGrid(grid, fill) ==
    [r \in 1..GRID_ROWS |-> [c \in 1..GRID_COLS |->
        IF grid[r][c] = EMPTY THEN fill[r][c] ELSE grid[r][c]]]

\* the grid of the best result has a cell for every (r, c) the fill loop reads
FillInRange(grid) ==
    /\ Len(grid) >= GRID_ROWS
    /\ \A r \in 1..GRID_ROWS : Len(grid[r]) >= GRID_COLS

\* lines 226-240 when the fill loop stays inside best_result.grid
Finish(fill) ==
    /\ SearchReturned
    /\ FillInRange(best_result.grid)
    /\ best_result' = [Classify(best_result, words) EXCEPT
                          !.grid = FillGrid(best_result.grid, fill)]
    /\ pc' = "done"
    /\ UNCHANGED <<words, required_flags, GRID_ROWS, GRID_COLS,
                   MAX_RUNTIME_MS, elapsed_ms, sort_ties, word_order, stack,
                   current_placements, used_flags, checks, run, first,
                   visited, deadline_seen, probe>>

\* lines 226-240 when best_result.grid is still the empty vector of the
\* default PuzzleResult: line 237 reads best_result.grid[0][0] outside the
\* vector, which is undefined behaviour.  The process is killed at the read,
\* or the read goes through and the function returns with the grid as it is.
FinishOutOfRange ==
    /\ SearchReturned
    /\ ~FillInRange(best_result.grid)
    /\ \/ /\ pc' = "crashed"
          /\ best_result' = Classify(best_result, words)
       \/ /\ pc' = "done"
          /\ best_result' = Classify(best_result, words)
    /\ UNCHANGED <<words, required_flags, GRID_ROWS, GRID_COLS,
                   MAX_RUNTIME_MS, elapsed_ms, sort_ties, word_order, stack,
                   current_placements, used_flags, checks, run, first,
                   visited, deadline_seen, probe>>

----------------------------------------------------------------------------
(* Specification *)

\* no earlier run of the solver
NoRun == [returned |-> FALSE, num_placed |-> 0, total_overlap_score |-> 0,
          checks |-> 0]

\* canPlaceWord not called directly
NoProbe == [results |-> << >>]

\* globals as initialised at lines 22-24, nothing called yet
Init ==
    /\ pc = "main"
    /\ words = << >>
    /\ required_flags = << >>
    /\ GRID_ROWS = 0
    /\ GRID_COLS = 0
    /\ MAX_RUNTIME_MS = 2000
    /\ elapsed_ms = 0
    /\ sort_ties \in {"generated", "reversed"}
    /\ word_order = << >>
    /\ stack = << >>
    /\ current_placements = << >>
    /\ used_flags = << >>
    /\ best_result = PuzzleResult
    /\ checks = 0
    /\ run = 1
    /\ first = NoRun
    /\ visited = {}
    /\ deadline_seen = FALSE
    /\ probe = NoProbe

Search ==
    \/ SolveEntry
    \/ TryCandidate
    \/ UndoCandidate
    \/ SkipWord
    \/ ReturnAfterSkip

Next ==
    \/ Main
    \/ Tick
    \/ Search
    \/ \E fill \in Fills(GRID_ROWS, GRID_COLS) : Finish(fill)
    \/ FinishOutOfRange

Spec == Init /\ [][Next]_vars

----------------------------------------------------------------------------
(* A short and a long word on a WideRows x WideCols grid *)

\* rows of the wide grid
WideRows == 2
\* columns of the wide grid, and the length of the long word
WideCols == 3

MainWide ==
    /\ pc = "main"
    /\ \E short \in WordPool, long \in [1..WideCols -> Alphabet],
          flags \in [1..2 -> BOOLEAN], runtime_ms \in 0..MaxRuntime :
          generateWordSearch(<<short, long>>, flags, WideRows, WideCols,
                             runtime_ms)
    /\ UNCHANGED <<sort_ties, run, first, probe>>

NextWide ==
    \/ MainWide
    \/ Tick
    \/ Search
    \/ \E fill \in SameLetterFills(GRID_ROWS, GRID_COLS) : Finish(fill)
    \/ FinishOutOfRange

SpecWide == Init /\ [][NextWide]_vars

----------------------------------------------------------------------------
(* The scenario CAT*, CAR*, ARC on a 5 x 5 grid *)

MainCat ==
    /\ pc = "main"
    /\ \E runtime_ms \in 0..MaxRuntime :
          generateWordSearch(<< <<"C", "A", "T">>, <<"C", "A", "R">>,
                                <<"A", "R", "C">> >>,
                             <<TRUE, TRUE, FALSE>>, 5, 5, runtime_ms)
    /\ UNCHANGED <<sort_ties, run, first, probe>>

NextCat ==
    \/ MainCat
    \/ Tick
    \/ Search
    \/ \E fill \in SameLetterFills(GRID_ROWS, GRID_COLS) : Finish(fill)
    \/ FinishOutOfRange

SpecCat == Init /\ [][NextCat]_vars

----------------------------------------------------------------------------
(* The program run twice on the same words, flags and grid size, each run  *)
(* with its own time limit; the words have MaxWordLen letters and the grid *)
(* is a single row of up to WideCols columns                               *)

FullWords == [1..MaxWordLen -> Alphabet]

FullWordLists == UNION {[1..n -> FullWords] : n \in 1..MaxWords}

MainRow ==
    /\ pc = "main"
    /\ \E ws \in FullWordLists, cols \in 1..WideCols,
          runtime_ms \in 0..MaxRuntime :
          \E flags \in [1..Len(ws) -> BOOLEAN] :
              generateWordSearch(ws, flags, 1, cols, runtime_ms)
    /\ UNCHANGED <<sort_ties, run, first, probe>>

\* the process has returned its result and the program is started again
MainAgain ==
    /\ pc = "done"
    /\ run = 1
    /\ run' = 2
    /\ first' = [returned |-> TRUE,
                 num_placed |-> best_result.num_placed,
                 total_overlap_score |-> best_result.total_overlap_score,
                 checks |-> checks]
    /\ \E runtime_ms \in 0..MaxRuntime :
          generateWordSearch(words, required_flags, GRID_ROWS, GRID_COLS,
                             runtime_ms)
    /\ UNCHANGED <<sort_ties, probe>>

NextTwice ==
    \/ MainRow
    \/ MainAgain
    \/ Tick
    \/ Search
    \/ \E fill \in SameLetterFills(GRID_ROWS, GRID_COLS) : Finish(fill)
    \/ FinishOutOfRange

SpecTwice == Init /\ [][NextTwice]_vars

----------------------------------------------------------------------------
(* Longer word lists with time limit 0 on a 1 x 1 grid: the run orders the *)
(* words and ends at the first deadline check                              *)

\* a list has 1..MaxOrderWords word entries
MaxOrderWords == 4
\* each of 1..MaxOrderLen letters
MaxOrderLen == 3

OrderWords == {[k \in 1..n |-> LetterOf[1]] : n \in 1..MaxOrderLen}

OrderWordLists == UNION {[1..n -> OrderWords] : n \in 1..MaxOrderWords}

MainOrder ==
    /\ pc = "main"
    /\ \E ws \in OrderWordLists :
          \E flags \in [1..Len(ws) -> BOOLEAN] :
              generateWordSearch(ws, flags, 1, 1, 0)
    /\ UNCHANGED <<sort_ties, run, first, probe>>

NextOrder ==
    \/ MainOrder
    \/ SolveEntry
    \/ FinishOutOfRange

SpecOrder == Init /\ [][NextOrder]_vars

----------------------------------------------------------------------------
(* canPlaceWord called directly, more than once, on a grid of the size the *)
(* globals give, holding any letters, with any word, any start cell in the *)
(* grid or one step outside it, and any direction                          *)

\* canPlaceWord is called up to MaxCalls times with the same arguments
MaxCalls == 2

ProbeGrids(rows, cols) == [1..rows -> [1..cols -> Alphabet \cup {EMPTY}]]

InitProbe ==
    /\ pc = "probe"
    /\ words = << >>
    /\ required_flags = << >>
    /\ \E rows \in 1..MaxRows, cols \in 1..MaxCols :
          /\ GRID_ROWS = rows
          /\ GRID_COLS = cols
          /\ \E grid \in ProbeGrids(rows, cols), word \in WordPool,
                r \in (-1)..rows, c \in (-1)..cols, d \in DOMAIN DIRECTIONS :
                probe = [grid |-> grid, grid_before |-> grid, word |-> word,
                         r |-> r, c |-> c,
                         dr |-> DIRECTIONS[d][1], dc |-> DIRECTIONS[d][2],
                         results |-> << >>]
    /\ MAX_RUNTIME_MS = 2000
    /\ elapsed_ms = 0
    /\ sort_ties \in {"generated", "reversed"}
    /\ word_order = << >>
    /\ stack = << >>
    /\ current_placements = << >>
    /\ used_flags = << >>
    /\ best_result = PuzzleResult
    /\ checks = 0
    /\ run = 1
    /\ first = NoRun
    /\ visited = {}
    /\ deadline_seen = FALSE

\* one call of canPlaceWord, lines 79-89; grid is a const reference
CallCanPlace ==
    /\ pc = "probe"
    /\ Len(probe.results) < MaxCalls
    /\ probe' = [probe EXCEPT
                    !.results = Append(@, canPlaceWord(probe.grid, probe.word,
                                                       probe.r, probe.c,
                                                       probe.dr, probe.dc))]
    /\ UNCHANGED <<pc, words, required_flags, GRID_ROWS, GRID_COLS,
                   MAX_RUNTIME_MS, elapsed_ms, sort_ties, word_order, stack,
                   current_placements, used_flags, best_result, checks,
                   run, first, visited, deadline_seen>>

NextProbe == CallCanPlace

SpecProbe == InitProbe /\ [][NextProbe]_vars

----------------------------------------------------------------------------
(* Reference notions the claims are stated with, defined from the grid and *)
(* the placements alone                                                    *)

\* the cells a placement occupies, as (row, col) pairs from 0
CellsOf(p) ==
    {<<p.row + k * p.delta_row, p.col + k * p.delta_col>> :
        k \in 0..(Len(p.word) - 1)}

\* the letter a placement puts on one of its cells
LetterAt(p, cell) ==
    p.word[1 + (CHOOSE k \in 0..(Len(p.word) - 1) :
                   cell = <<p.row + k * p.delta_row, p.col + k * p.delta_col>>)]

GridCells == (0..(GRID_ROWS - 1)) \X (0..(GRID_COLS - 1))

InGrid(p) == CellsOf(p) \subseteq GridCells

\* two placements agree on every cell they share
Compatible(p, q) ==
    \A cell \in CellsOf(p) \cap CellsOf(q) : LetterAt(p, cell) = LetterAt(q, cell)

\* a sequence of placements is in bounds and free of letter conflicts
ConflictFree(placements) ==
    /\ \A i \in DOMAIN placements : InGrid(placements[i])
    /\ \A i, j \in DOMAIN placements : Compatible(placements[i], placements[j])

Coverers(placements, cell) ==
    {i \in DOMAIN placements : cell \in CellsOf(placements[i])}

\* sum over the cells of S covered by two or more placements of (coverers - 1)
RECURSIVE RecountOver(_, _)
RecountOver(placements, S) ==
    IF S = {} THEN 0
    ELSE LET cell == CHOOSE y \in S : TRUE
             n == Cardinality(Coverers(placements, cell))
         IN  (IF n >= 2 THEN n - 1 ELSE 0) + RecountOver(placements, S \ {cell})

DirectRecount(placements) == RecountOver(placements, GridCells)

\* every placement of a word: any start cell, any direction, inside the grid
PlacementsOf(word) ==
    {p \in {WordPlacement(word, cell[1], cell[2], DIRECTIONS[d][1], DIRECTIONS[d][2]) :
               cell \in GridCells, d \in DOMAIN DIRECTIONS} : InGrid(p)}

\* every conflict-free set of placements of distinct entries of words, as a
\* sequence extending placed with placements of the entries from the i-th on
RECURSIVE Arrangements(_, _)
Arrangements(i, placed) ==
    IF i > Len(words) THEN {placed}
    ELSE Arrangements(i + 1, placed) \cup
         UNION {Arrangements(i + 1, Append(placed, p)) :
                   p \in {q \in PlacementsOf(words[i]) :
                             \A j \in DOMAIN placed : Compatible(q, placed[j])}}

\* lexicographic order on (placedCount, overlapScore)
KeyLeq(a, b) == a[1] < b[1] \/ (a[1] = b[1] /\ a[2] <= b[2])

BestKey == <<best_result.num_placed, best_result.total_overlap_score>>

\* the search ran to its end and no deadline check ever returned true
Exhausted == (SearchReturned \/ pc \in {"done", "crashed"}) /\ ~hasTimedOut

----------------------------------------------------------------------------
(* Results *)

\* the result record generateWordSearch hands back
Returned == pc = "done"

\* the process ended: with a result, or killed
Ended == pc \in {"done", "crashed"}

\* number of entries of a list equal to w
Count(list, w) == Cardinality({i \in DOMAIN list : list[i] = w})

Range(list) == {list[i] : i \in DOMAIN list}

\* grid is a vector of GRID_ROWS strings of GRID_COLS characters
HasGridShape(grid) ==
    /\ Len(grid) = GRID_ROWS
    /\ \A r \in DOMAIN grid : Len(grid[r]) = GRID_COLS

\* the cells that exist in grid, as (row, col) pairs from 0
ExistingCells(grid) ==
    {cell \in GridCells :
        /\ cell[1] + 1 \in DOMAIN grid
        /\ cell[2] + 1 \in DOMAIN grid[cell[1] + 1]}

\* every cell of grid covered by a placement holds that placement's letter,
\* every other cell holds a value of free
CoveredAndFree(grid, placements, free) ==
    \A cell \in ExistingCells(grid) :
        LET on == Coverers(placements, cell)
            value == grid[cell[1] + 1][cell[2] + 1]
        IN  /\ \A i \in on : value = LetterAt(placements[i], cell)
            /\ on = {} => value \in free

\* a word with more letters than the grid has rows and than it has columns
TooLong(word) == Len(word) > GRID_ROWS /\ Len(word) > GRID_COLS

----------------------------------------------------------------------------
(* Claims *)

\* C1: when the search runs to completion without the time budget expiring,
\* (placedCount, overlapScore) is the lexicographic maximum over all in-bounds,
\* jointly conflict-free placements of distinct input words.
C1_LexMaximum ==
    ((SearchReturned \/ Returned) /\ ~hasTimedOut) =>
        \A a \in Arrangements(1, << >>) :
            KeyLeq(<<Len(a), DirectRecount(a)>>, BestKey)

\* C2: in every result, exhausted or timed out, each input word entry is in
\* exactly one of placed_words and unplaced_words, and the two lists hold
\* nothing but input words.
C2_Partition ==
    Returned =>
        /\ \A w \in Range(words) :
              /\ Count(best_result.placed_words, w)
                   + Count(best_result.unplaced_words, w) = Count(words, w)
              /\ \/ Count(best_result.placed_words, w) = 0
                 \/ Count(best_result.unplaced_words, w) = 0
        /\ Range(best_result.placed_words) \cup Range(best_result.unplaced_words)
               \subseteq Range(words)

\* a timed-out result with a placed and an unplaced word
C2_Witness ==
    /\ Returned
    /\ hasTimedOut
    /\ best_result.placed_words # << >>
    /\ best_result.unplaced_words # << >>

\* C3: once the search has returned, the grid of the result has GRID_ROWS rows
\* of GRID_COLS cells, so the reads grid[r][c] of the fill loop stay inside it.
C3_GridShape ==
    (SearchReturned \/ Returned) => HasGridShape(best_result.grid)

\* C4 as claimed: when generateWordSearch returns, a cell of the result grid
\* that no placement covers holds '.', a covered cell holds the placement's
\* letter.
C4_UncoveredEmpty ==
    Returned =>
        CoveredAndFree(best_result.grid, best_result.placements, {EMPTY})

\* C4 amended: a cell no placement covers holds '.' when the search returns,
\* and a letter 'A'..'Z' drawn by the fill when generateWordSearch returns;
\* a covered cell holds the letter of the placements covering it in both.
C4_UncoveredFilled ==
    /\ SearchReturned =>
          CoveredAndFree(best_result.grid, best_result.placements, {EMPTY})
    /\ Returned =>
          CoveredAndFree(best_result.grid, best_result.placements, Letters)

\* a result whose grid has a covered cell and a filled one
C4_Witness ==
    /\ Returned
    /\ \E cell \in ExistingCells(best_result.grid) :
          Coverers(best_result.placements, cell) = {}
    /\ \E cell \in ExistingCells(best_result.grid) :
          Coverers(best_result.placements, cell) # {}

\* C5: in every result, exhausted or timed out, every placement lies inside
\* the grid and two placements that share a cell put the same letter there.
C5_ConflictFree ==
    (SearchReturned \/ Ended) => ConflictFree(best_result.placements)

\* a timed-out result with two placements sharing a cell
C5_Witness ==
    /\ Returned
    /\ hasTimedOut
    /\ \E i, j \in DOMAIN best_result.placements :
          /\ i # j
          /\ CellsOf(best_result.placements[i])
               \cap CellsOf(best_result.placements[j]) # {}

\* C6: in every result, total_overlap_score is the direct recount over the
\* result's placements and num_placed is the number of placements.
C6_ScoreIsRecount ==
    (SearchReturned \/ Ended) =>
        /\ best_result.total_overlap_score = DirectRecount(best_result.placements)
        /\ best_result.num_placed = Len(best_result.placements)

\* a result with two placements and two shared cells
C6_Witness ==
    /\ Returned
    /\ Len(best_result.placements) >= 2
    /\ best_result.total_overlap_score >= 2

\* C7: of two runs on the same words, flags and grid size, the one whose
\* deadline cut the search no earlier (it passed at least as many deadline
\* checks) returns a (num_placed, total_overlap_score) at least as large.
C7_MoreTimeNoWorse ==
    (run = 2 /\ Returned /\ first.checks <= checks) =>
        KeyLeq(<<first.num_placed, first.total_overlap_score>>, BestKey)

\* a second run cut later than the first, both cut, with a better result
C7_Witness ==
    /\ run = 2
    /\ Returned
    /\ hasTimedOut
    /\ 0 < first.checks
    /\ first.checks < checks
    /\ 0 < first.num_placed
    /\ BestKey # <<first.num_placed, first.total_overlap_score>>

\* C8: with a time limit of 0 the run ends in a result with num_placed = 0, no
\* placements, total_overlap_score = 0 and every input word unplaced, and no
\* candidate was generated on the way.
C8_ZeroLimit ==
    MAX_RUNTIME_MS = 0 =>
        /\ \A i \in DOMAIN stack : stack[i].at = "entry"
        /\ Ended =>
              /\ Returned
              /\ best_result.num_placed = 0
              /\ best_result.placements = << >>
              /\ best_result.total_overlap_score = 0
              /\ best_result.unplaced_words = words

\* C9: a word longer than both grid dimensions is never a candidate and never
\* placed, and a run that does not time out ends in a normal result that lists
\* it as unplaced (num_placed = 0 when it is the only word).
C9_TooLongUnplaced ==
    \A k \in DOMAIN words :
        TooLong(words[k]) =>
            /\ \A i \in DOMAIN current_placements :
                  current_placements[i].word # words[k]
            /\ (Ended /\ ~hasTimedOut) =>
                  /\ Returned
                  /\ words[k] \notin Range(best_result.placed_words)
                  /\ words[k] \in Range(best_result.unplaced_words)
                  /\ Len(words) = 1 => best_result.num_placed = 0

\* C10: CAT and CAR required, ARC optional, 5 x 5 grid, no timeout: the result
\* has num_placed = 3 and total_overlap_score >= 1.
C10_CatCarArc ==
    ((SearchReturned \/ Returned) /\ ~hasTimedOut) =>
        /\ best_result.num_placed = 3
        /\ best_result.total_overlap_score >= 1

\* the scenario's search ran to its end and its result was returned
C10_Witness ==
    /\ Returned
    /\ ~hasTimedOut
    /\ Len(words) = 3
    /\ Len(best_result.placed_words) = 3

----------------------------------------------------------------------------
(* The search as it runs *)

\* the largest key of a non-empty set of (placedCount, overlapScore) keys
LexMax(keys) == CHOOSE k \in keys : \A j \in keys : KeyLeq(j, k)

\* C11: at every point of the search the (num_placed, total_overlap_score) of
\* the best record is the lexicographic maximum of the keys of the calls whose
\* update step has run so far ((0, 0) before the first), and no step of the
\* program makes it smaller.
C11_RunningMaximum ==
    /\ [](BestKey = LexMax(visited \cup {<<0, 0>>}))
    /\ [][KeyLeq(BestKey, BestKey')]_vars

\* the search is under way, the record holds shared cells, and calls with at
\* least three different keys have run their update step
C11_Witness ==
    /\ Searching
    /\ Cardinality(visited) >= 3
    /\ best_result.total_overlap_score >= 1
    /\ <<0, 0>> \in visited

\* the nodes below a call: every conflict-free extension of placed by
\* placements of the words at positions k.. of word_order (positions from 1)
RECURSIVE Extensions(_, _)
Extensions(k, placed) ==
    IF k > Len(word_order) THEN {placed}
    ELSE Extensions(k + 1, placed) \cup
         UNION {Extensions(k + 1, Append(placed, p)) :
                   p \in {q \in PlacementsOf(words[word_order[k] + 1]) :
                             \A j \in DOMAIN placed : Compatible(q, placed[j])}}

\* a step in which a call returns at line 153
CutStep ==
    /\ Searching
    /\ Top.at = "entry"
    /\ ~hasTimedOut
    /\ Top.current_index < Len(word_order)
    /\ stack' = Pop

\* the largest number of input words that fit the grid together
MostPlaceable ==
    CHOOSE n \in 0..Len(words) :
        /\ \E a \in Arrangements(1, << >>) : Len(a) = n
        /\ \A a \in Arrangements(1, << >>) : Len(a) <= n

\* C12: when a call returns at the bound test of line 153, no node below it
\* places more words than the best record holds at that moment; and when the
\* search has ended without a deadline check cutting it, num_placed is the
\* largest number of input words that can be placed together without conflict.
C12_BoundIsSound ==
    /\ [][CutStep =>
            \A a \in Extensions(Top.current_index + 1, current_placements) :
                Len(a) <= best_result'.num_placed]_vars
    /\ []((SearchReturned \/ Ended) /\ ~deadline_seen =>
            best_result.num_placed = MostPlaceable)

\* a run no deadline cut, in which one of two words fits and the other does
\* not: the call that skipped the first word returned at the bound test
C12_Witness ==
    /\ Returned
    /\ ~deadline_seen
    /\ Len(words) = 2
    /\ best_result.num_placed = 1
    /\ MostPlaceable = 1

----------------------------------------------------------------------------
(* Grids and path of the active calls *)

\* the word the i-th active call works on
WordOf(i) == words[word_order[stack[i].current_index + 1] + 1]

\* the number of calls below the i-th that are inside a placement attempt
PlacedBelow(i) ==
    Cardinality({j \in DOMAIN stack : j < i /\ stack[j].at = "placed"})

\* the path as it was when the i-th active call was entered
PathAt(i) == SubSeq(current_placements, 1, PlacedBelow(i))

\* C13: the grid of every active call has the grid's shape, holds on the cells
\* of the placements of the path at its entry their letters and '.' everywhere
\* else; the path is the placements of the attempts under way, in call order;
\* and no step changes the grid of an active call or the path at its entry,
\* so after an attempt returns the caller has the grid and path it had before.
C13_GridIsPath ==
    /\ [](Searching =>
            /\ Len(current_placements) = PlacedBelow(Len(stack) + 1)
            /\ \A i \in DOMAIN stack :
                  /\ HasGridShape(stack[i].grid)
                  /\ CoveredAndFree(stack[i].grid, PathAt(i), {EMPTY})
                  /\ stack[i].at = "placed" =>
                        LET cand == stack[i].candidates[stack[i].next]
                        IN  current_placements[PlacedBelow(i) + 1] =
                                WordPlacement(WordOf(i), cand.r, cand.c,
                                              cand.dr, cand.dc))
    /\ [][\A i \in DOMAIN stack :
              i \in DOMAIN stack' =>
                  /\ stack'[i].grid = stack[i].grid
                  /\ SubSeq(current_placements', 1, PlacedBelow(i)) = PathAt(i)]_vars

\* the skip branch of a call entered with a word on the path, after that
\* call's attempts, two or more, have returned
C13_Witness ==
    /\ Searching
    /\ Len(stack) >= 3
    /\ Top.at = "entry"
    /\ stack[Len(stack) - 1].at = "skipped"
    /\ stack[Len(stack) - 1].next >= 3
    /\ current_placements # << >>
    /\ Top.grid = stack[Len(stack) - 1].grid

----------------------------------------------------------------------------
(* Order of the branches of one call *)

\* a step in which the innermost call starts its skip branch (line 194)
SkipStep ==
    /\ Searching
    /\ Len(stack') = Len(stack) + 1
    /\ stack'[Len(stack)].at = "skipped"

\* a step in which the innermost call starts a placement attempt (line 186)
AttemptStep ==
    /\ Searching
    /\ Len(stack') = Len(stack) + 1
    /\ stack'[Len(stack)].at = "placed"

\* C14: a call starts its skip branch only from its loop, when as many
\* attempts as it has candidates have been started and have returned and the
\* clock is before the deadline; the branch is a call for the next index with
\* the same grid and the same path; and a call in its skip branch does nothing
\* more until it returns, so the branch is taken at most once.
C14_SkipLastOnce ==
    [][/\ SkipStep =>
             /\ Top.at = "loop"
             /\ Top.next = Len(Top.candidates) + 1
             /\ ~hasTimedOut
             /\ stack'[Len(stack')] = Call(Top.current_index + 1, Top.grid)
             /\ current_placements' = current_placements
             /\ used_flags' = used_flags
       /\ AttemptStep =>
             /\ Top.at = "loop"
             /\ stack'[Len(stack)].next = Top.next
             /\ Top.next <= Len(Top.candidates)
       /\ \A i \in DOMAIN stack \cap DOMAIN stack' :
             /\ stack'[i].next # stack[i].next =>
                   /\ stack[i].at = "placed"
                   /\ stack'[i].at = "loop"
                   /\ stack'[i].next = stack[i].next + 1
                   /\ i = Len(stack)
             /\ stack[i].at # "entry" => stack'[i].candidates = stack[i].candidates
             /\ stack[i].at = "skipped" => stack'[i] = stack[i]]_vars

\* a call in its skip branch after the attempts of its candidates, two or
\* more, have returned
C14_Witness ==
    /\ Searching
    /\ \E i \in DOMAIN stack :
          /\ stack[i].at = "skipped"
          /\ Len(stack[i].candidates) >= 2
          /\ stack[i].next = Len(stack[i].candidates) + 1
          /\ i < Len(stack)

----------------------------------------------------------------------------
(* After the deadline *)

\* placements is placements_before with entries removed from its end
IsPrefix(placements, placements_before) ==
    /\ Len(placements) <= Len(placements_before)
    /\ placements = SubSeq(placements_before, 1, Len(placements))

\* C15: once a call of hasTimedOut() has returned true, every later call of it
\* does; while the search unwinds no call is started (no attempt, no skip), no
\* candidate list is built, no update step runs, the path only shrinks and the
\* best record stays as it is; and generateWordSearch returns that record's
\* num_placed, total_overlap_score and placements.
C15_DeadlineStops ==
    /\ [](deadline_seen => hasTimedOut)
    /\ [][(deadline_seen /\ pc = "search") =>
              /\ deadline_seen'
              /\ Len(stack') <= Len(stack)
              /\ \A i \in DOMAIN stack' :
                    /\ stack'[i].candidates = stack[i].candidates
                    /\ stack'[i].at # stack[i].at =>
                          stack[i].at = "placed" /\ stack'[i].at = "loop"
              /\ visited' = visited
              /\ IsPrefix(current_placements', current_placements)
              /\ Searching => best_result' = best_result
              /\ best_result'.num_placed = best_result.num_placed
              /\ best_result'.total_overlap_score = best_result.total_overlap_score
              /\ best_result'.placements = best_result.placements]_vars

\* a result returned after the deadline cut the search short of a placement
\* that was still to be found
C15_Witness ==
    /\ Returned
    /\ deadline_seen
    /\ checks >= 2
    /\ best_result.num_placed >= 1
    /\ best_result.num_placed < MostPlaceable

----------------------------------------------------------------------------
(* Candidates *)

\* the value of the cell (row, col), counted from 0, of grid
CellValue(grid, cell) == grid[cell[1] + 1][cell[2] + 1]

\* placement p lies inside the grid and each of its cells is '.' or holds the
\* letter p puts there
Fits(grid, p) ==
    /\ InGrid(p)
    /\ \A cell \in CellsOf(p) :
          CellValue(grid, cell) \in {EMPTY, LetterAt(p, cell)}

\* the number of cells of p that hold a letter
LettersUnder(grid, p) ==
    Cardinality({cell \in CellsOf(p) : CellValue(grid, cell) # EMPTY})

\* every start cell and direction for word, in the grid or not
AllPlacements(word) ==
    {WordPlacement(word, cell[1], cell[2], DIRECTIONS[d][1], DIRECTIONS[d][2]) :
        cell \in GridCells, d \in DOMAIN DIRECTIONS}

\* Manhattan distance of (r, c) from the grid center (rows/2, cols/2)
CenterDistance(r, c) == Abs(r - GRID_ROWS \div 2) + Abs(c - GRID_COLS \div 2)

\* a candidate as a placement of word
AsPlacement(word, cand) ==
    WordPlacement(word, cand.r, cand.c, cand.dr, cand.dc)

\* C16: the candidate list of a call holds, once each, exactly the start
\* cells and directions at which the call's word fits the call's grid, each
\* with the number of its cells that already hold a letter as overlap; along
\* the list overlap never increases and, between neighbours of equal overlap,
\* the distance of the start cell from the grid center never decreases.
C16_CandidatesRanked ==
    Searching =>
        \A i \in DOMAIN stack :
            stack[i].at # "entry" =>
                LET cs == stack[i].candidates
                    grid == stack[i].grid
                    fitting == {p \in AllPlacements(WordOf(i)) : Fits(grid, p)}
                IN  /\ {AsPlacement(WordOf(i), cs[k]) : k \in DOMAIN cs} = fitting
                    /\ Len(cs) = Cardinality(fitting)
                    /\ \A k \in DOMAIN cs :
                          cs[k].overlap =
                              LettersUnder(grid, AsPlacement(WordOf(i), cs[k]))
                    /\ \A k \in 1..(Len(cs) - 1) :
                          /\ cs[k].overlap >= cs[k + 1].overlap
                          /\ cs[k].overlap = cs[k + 1].overlap =>
                                CenterDistance(cs[k].r, cs[k].c)
                                    <= CenterDistance(cs[k + 1].r, cs[k + 1].c)

\* a candidate list with two overlap counts and, within the smaller one, two
\* distances from the center, while some placement of the word does not fit
C16_Witness ==
    /\ Searching
    /\ Top.at = "loop"
    /\ \E j, k \in DOMAIN Top.candidates :
          /\ j < k
          /\ Top.candidates[1].overlap > Top.candidates[j].overlap
          /\ Top.candidates[j].overlap = Top.candidates[k].overlap
          /\ CenterDistance(Top.candidates[j].r, Top.candidates[j].c)
                < CenterDistance(Top.candidates[k].r, Top.candidates[k].c)
    /\ Len(Top.candidates) < Cardinality(AllPlacements(WordOf(Len(stack))))

----------------------------------------------------------------------------
(* Word order *)

\* the k-th word index of the attempt order is that of a required word
RequiredAt(k) == required_flags[word_order[k] + 1]

\* the length of the word at position k of the attempt order
LengthAt(k) == Len(words[word_order[k] + 1])

\* C17: the attempt order holds every word index 0..n-1 exactly once, no
\* optional word comes before a required one, and between two required words
\* and between two optional words the earlier one is at least as long.
C17_WordOrder ==
    pc # "main" =>
        /\ Len(word_order) = Len(words)
        /\ {word_order[k] : k \in DOMAIN word_order} = 0..(Len(words) - 1)
        /\ \A j, k \in DOMAIN word_order :
              j < k =>
                  /\ RequiredAt(k) => RequiredAt(j)
                  /\ RequiredAt(j) = RequiredAt(k) => LengthAt(j) >= LengthAt(k)

\* an order that differs from the input order for both reasons: a required
\* word given last comes first though it is the shortest, and of two optional
\* words the longer, given later, comes before the shorter
C17_Witness ==
    /\ pc # "main"
    /\ Len(words) >= 3
    /\ RequiredAt(1)
    /\ word_order[1] = Len(words) - 1
    /\ \A k \in 2..Len(words) : LengthAt(1) < LengthAt(k)
    /\ \E j, k \in DOMAIN word_order :
          /\ j < k
          /\ ~RequiredAt(j)
          /\ word_order[j] > word_order[k]
          /\ LengthAt(j) > LengthAt(k)

----------------------------------------------------------------------------
(* canPlaceWord *)

\* the placement the arguments of the direct calls describe
ProbePlacement ==
    WordPlacement(probe.word, probe.r, probe.c, probe.dr, probe.dc)

\* C18: canPlaceWord returns true exactly when every cell of the word is in
\* bounds and is '.' or holds the word's letter for it; when it returns true
\* its overlap count is the number of those cells that hold a letter; the
\* grid is as it was before the calls and every call returns what the first
\* one returned.
C18_CanPlaceExact ==
    \A k \in DOMAIN probe.results :
        /\ probe.results[k].ok = Fits(probe.grid, ProbePlacement)
        /\ probe.results[k].ok =>
              probe.results[k].overlap_count =
                  LettersUnder(probe.grid, ProbePlacement)
        /\ probe.grid = probe.grid_before
        /\ probe.results[k] = probe.results[1]

\* two calls that returned true for a two-letter word with one cell holding
\* its letter and the other empty, on a grid that holds another letter too
C18_Witness ==
    /\ Len(probe.results) = 2
    /\ probe.results[2].ok
    /\ Len(probe.word) = 2
    /\ probe.results[2].overlap_count = 1
    /\ \E cell \in GridCells :
          /\ cell \notin CellsOf(ProbePlacement)
          /\ CellValue(probe.grid, cell) \notin {EMPTY, probe.word[1], probe.word[2]}

\* two calls that returned false for a start cell in the grid: the word
\* leaves the grid, or meets another letter
C18_WitnessRefused ==
    /\ Len(probe.results) = 2
    /\ ~probe.results[2].ok
    /\ <<probe.r, probe.c>> \in GridCells

----------------------------------------------------------------------------
(* placeWord *)

\* C19: in every step that starts a placement attempt, canPlaceWord accepts
\* the candidate on the caller's grid as it is at that moment, with the
\* overlap recorded for it; the copy handed to the new call has the grid's
\* shape, holds the word's letters on the word's cells, all inside the grid,
\* and the caller's value on every other cell; and no cell that held a letter
\* holds another one afterwards.
C19_PlaceAfterCheck ==
    [][AttemptStep =>
          LET word == WordOf(Len(stack))
              cand == Top.candidates[Top.next]
              p == AsPlacement(word, cand)
              new_grid == stack'[Len(stack')].grid
              res == canPlaceWord(Top.grid, word, cand.r, cand.c, cand.dr, cand.dc)
          IN  /\ res.ok
              /\ res.overlap_count = cand.overlap
              /\ Fits(Top.grid, p)
              /\ stack'[Len(stack)].grid = Top.grid
              /\ HasGridShape(new_grid)
              /\ \A cell \in GridCells :
                    /\ CellValue(new_grid, cell) =
                          IF cell \in CellsOf(p) THEN LetterAt(p, cell)
                          ELSE CellValue(Top.grid, cell)
                    /\ CellValue(Top.grid, cell) # EMPTY =>
                          CellValue(new_grid, cell) = CellValue(Top.grid, cell)
              /\ current_placements' = Append(current_placements, p)]_vars

\* an attempt under way whose word was written over a cell that held its
\* letter and onto an empty cell, beside a cell holding another letter
C19_Witness ==
    /\ Searching
    /\ \E i \in DOMAIN stack :
          /\ i < Len(stack)
          /\ stack[i].at = "placed"
          /\ stack[i].candidates[stack[i].next].overlap >= 1
          /\ stack[i + 1].grid # stack[i].grid
          /\ \E cell \in GridCells :
                /\ CellValue(stack[i].grid, cell) # EMPTY
                /\ cell \notin CellsOf(AsPlacement(WordOf(i),
                                     stack[i].candidates[stack[i].next]))

----------------------------------------------------------------------------
(* Word lists of the result *)

\* C20: in every result placed_words has num_placed entries and
\* unplaced_words has the other Len(words) - num_placed, also when a word
\* text occurs more than once in the input.
C20_ListsMatchCount ==
    Returned =>
        /\ Len(best_result.placed_words) = best_result.num_placed
        /\ Len(best_result.unplaced_words) = Len(words) - best_result.num_placed

\* the same for the runs no deadline check cut short
C20_UncutListsMatchCount ==
    (Returned /\ ~deadline_seen) =>
        /\ Len(best_result.placed_words) = best_result.num_placed
        /\ Len(best_result.unplaced_words) = Len(words) - best_result.num_placed

====
